---- MODULE Spec2Model ----
(***************************************************************************)
(* State machine of the App component of src/index.tsx (ArduLog AI         *)
(* Analyst): React state, the event handlers, and the asynchronous         *)
(* continuations of startAnalysis, sendChatMessage and handleFileSelect.   *)
(*                                                                         *)
(* fileInput is the selection the file input element holds               *)
(* (e.target.files[0], reset through fileInputRef by clearImage).         *)
(*                                                                         *)
(* Text is a sequence of string atoms; user-typed text uses one atom per   *)
(* character, a fixed literal of the source is one atom.  A nullable       *)
(* value is Null (<<>>) or Some(v) (<<v>>).                                *)
(***************************************************************************)
EXTENDS Integers, Sequences, FiniteSets, TLC

VARIABLES hardware, logData, imageFile, imagePreview, isAnalyzing,
          analysisResult, chatSession, chatHistory, chatInput, errorMsg,
          analysis, chats, reads, fileInput

vars == <<hardware, logData, imageFile, imagePreview, isAnalyzing,
          analysisResult, chatSession, chatHistory, chatInput, errorMsg,
          analysis, chats, reads, fileInput>>

(* React state of App, lines 86-107 *)
appState == <<hardware, logData, imageFile, imagePreview, isAnalyzing,
              analysisResult, chatSession, chatHistory, chatInput, errorMsg>>

----------------------------------------------------------------------------
(* Bounds of the model *)

MaxAnalyses == 2        \* startAnalysis invocations that pass validation
MaxChats == 2           \* sendChatMessage invocations that pass the guard
MaxChunks == 2          \* chunks one stream delivers
MaxReads == 2           \* text-file reads in flight at once

----------------------------------------------------------------------------
(* Nullable values and text *)

Null == <<>>
Some(v) == <<v>>
Val(o) == o[1]

Whitespace == {" ", "\t", "\n"}

RECURSIVE TrimStart(_)
TrimStart(s) ==
    IF s # <<>> /\ Head(s) \in Whitespace THEN TrimStart(Tail(s)) ELSE s

RECURSIVE TrimEnd(_)
TrimEnd(s) ==
    IF s # <<>> /\ s[Len(s)] \in Whitespace
    THEN TrimEnd(SubSeq(s, 1, Len(s) - 1)) ELSE s

(* String.prototype.trim *)
Trim(s) == TrimEnd(TrimStart(s))

(* Truthiness of a string that may be undefined: "" and undefined are falsy *)
Truthy(o) == o # Null /\ Val(o) # <<>>

(* String concatenation with a possibly undefined operand *)
StrOf(o) == IF o = Null THEN <<"undefined">> ELSE Val(o)

RECURSIVE Concat(_)
Concat(ss) == IF ss = <<>> THEN <<>> ELSE Head(ss) \o Concat(Tail(ss))

EndsWith(s, suffix) ==
    /\ Len(s) >= Len(suffix)
    /\ SubSeq(s, Len(s) - Len(suffix) + 1, Len(s)) = suffix

LowerOf ==
    [A |-> "a", B |-> "b", C |-> "c", D |-> "d", E |-> "e", F |-> "f",
     G |-> "g", H |-> "h", I |-> "i", J |-> "j", K |-> "k", L |-> "l",
     M |-> "m", N |-> "n", O |-> "o", P |-> "p", Q |-> "q", R |-> "r",
     S |-> "s", T |-> "t", U |-> "u", V |-> "v", W |-> "w", X |-> "x",
     Y |-> "y", Z |-> "z"]

(* Variant: the name is compared as typed *)
ToLowerCaseLeftOut(s) == s

(* String.prototype.toLowerCase, one atom per character *)
ToLowerCase(s) ==
    [i \in 1..Len(s) |-> IF s[i] \in DOMAIN LowerOf THEN LowerOf[s[i]] ELSE s[i]]

----------------------------------------------------------------------------
(* Fixed texts of the source *)

ValidationError == <<"Please upload a log file, paste data, or provide an image.">>
AnalysisFailed == <<"Analysis failed.">>
(* Variant: a failing read shows nothing *)
ReadFailedSilent == <<>>

ReadFailed == <<"Failed to read text file.">>
ErrorPrefix == <<"Error: ">>
NoTextLog == <<"No text log provided.">>
BinaryNotice == <<"BINARY FILE DETECTED (.BIN) ... Upload the text file here for analysis.">>
TruncationNotice == <<"\n\n[...File truncated for browser performance. Analysis will use the first 5MB...]">>
SystemInstruction == <<"You are an expert ArduPilot Flight Engineer and Log Analyst. ...">>
Model == "gemini-3-flash-preview"
ThinkingBudget == 1024

----------------------------------------------------------------------------
(* Hardware form *)

InitialHardware ==
    [frameType |-> <<"Quad X">>, weight |-> <<>>, batteryCells |-> <<>>,
     batteryCapacity |-> <<>>, motorKv |-> <<>>, propSize |-> <<>>,
     escAmps |-> <<>>]

HardwareFields == DOMAIN InitialHardware

(* Values the form widgets deliver in the model *)
HardwareInputs(field) ==
    IF field = "weight" THEN {<<>>, <<"1">>}
    ELSE IF field = "frameType" THEN {<<"Quad X">>}
    ELSE {<<>>}

(* contextPrompt template, lines 199-212 *)
ContextPrompt(hw, log) ==
    <<"**Hardware Context:** - Frame Type: ">> \o hw.frameType
    \o <<" - Weight: ">> \o hw.weight \o <<" kg - Battery: ">>
    \o hw.batteryCells \o <<"S ">> \o hw.batteryCapacity
    \o <<"mAh - Motors: ">> \o hw.motorKv \o <<" KV - Props: ">>
    \o hw.propSize \o <<" inch - ESC: ">> \o hw.escAmps
    \o <<" A **Log Data / Parameters:** ">>
    \o (IF log # <<>> THEN log ELSE NoTextLog)
    \o <<" Please analyze this configuration and any attached visual data.">>

----------------------------------------------------------------------------
(* Files offered by the file picker *)

MAX_SIZE == 5 * 1024 * 1024

(* A file's bytes are runs of equal bytes: <<[ch |-> "a", n |-> 3]>> is aaa *)
RECURSIVE Size(_)
Size(content) ==
    IF content = <<>> THEN 0 ELSE Head(content).n + Size(Tail(content))

(* Blob.slice(0, n) *)
RECURSIVE Slice(_, _)
Slice(content, n) ==
    IF content = <<>> \/ n <= 0 THEN <<>>
    ELSE IF Head(content).n <= n
         THEN <<Head(content)>> \o Slice(Tail(content), n - Head(content).n)
         ELSE <<[ch |-> Head(content).ch, n |-> n]>>

(* Blob.text(): one text atom per run of bytes *)
Text(content) ==
    [i \in 1..Len(content) |-> content[i].ch \o "*" \o ToString(content[i].n)]

File(name, type, content) ==
    [name |-> name, type |-> type, size |-> Size(content), content |-> content]

FileMapPng == File(<<"M", ".", "P", "N", "G">>, "image/png", <<[ch |-> "m", n |-> 3]>>)
FileHudJpg == File(<<"h", ".", "j", "p", "g">>, "image/jpeg", <<[ch |-> "h", n |-> 2]>>)
FileBin == File(<<"f", ".", "b", "i", "n">>, "application/octet-stream", <<[ch |-> "f", n |-> 4]>>)
FileLog == File(<<"a", ".", "l", "o", "g">>, "text/plain", <<[ch |-> "L", n |-> 2]>>)
FileBig == File(<<"b", ".", "t", "x", "t">>, "text/plain",
                <<[ch |-> "a", n |-> MAX_SIZE], [ch |-> "b", n |-> 1]>>)

FileUpperBin == File(<<"D", ".", "B", "I", "N">>, "", <<[ch |-> "d", n |-> 1]>>)
FileExact == File(<<"c", ".", "p", "a", "r", "a", "m">>, "",
                  <<[ch |-> "c", n |-> MAX_SIZE]>>)

FilePhotoJpeg == File(<<"p", ".", "J", "p", "e", "g">>, "image/jpeg", <<[ch |-> "p", n |-> 1]>>)
FileShotWebp == File(<<"s", ".", "w", "e", "b", "p">>, "image/webp", <<[ch |-> "s", n |-> 1]>>)
FilePngTxt == File(<<"x", ".", "p", "n", "g", ".", "t", "x", "t">>, "text/plain",
                   <<[ch |-> "x", n |-> 1]>>)

ImageFiles == {FileMapPng, FileHudJpg, FilePhotoJpeg, FileShotWebp}
BinFiles == {FileBin, FileUpperBin}
TextFiles == {FileLog, FileBig, FileExact, FilePngTxt}
Files == ImageFiles \cup BinFiles \cup TextFiles

(* URL.createObjectURL *)
CreateObjectURL(file) == [blob |-> file.name]

(* The extension test of line 132 *)
IsImageName(name) ==
    \/ EndsWith(name, <<".", "j", "p", "g">>)
    \/ EndsWith(name, <<".", "j", "p", "e", "g">>)
    \/ EndsWith(name, <<".", "p", "n", "g">>)
    \/ EndsWith(name, <<".", "w", "e", "b", "p">>)

(* Variant: no name counts as a binary log *)
IsBinNameNever(name) == FALSE

(* The extension test of line 139 *)
IsBinName(name) == EndsWith(name, <<".", "b", "i", "n">>)

----------------------------------------------------------------------------
(* The remote service and the values it exchanges *)

(* Failures the remote calls raise: an Error with a message, or with none *)
Errors == {[message |-> Some(<<"E">>)], [message |-> Some(<<>>)]}

(* The ProgressEvent FileReader.onerror rejects with: it has no message *)
ProgressEvent == [message |-> Null]

(* Text deltas a chunk of a stream carries; <<>> is a chunk with no text.
   The field received of a request holds the chunks its stream has
   delivered so far. *)
AnalysisChunks == {<<>>, <<"A">>, <<"B">>}
StreamChunks == {<<>>, <<"A">>}
ChatChunks == {<<>>, <<"X">>}

TextPart(t) == [text |-> Some(t), inlineData |-> Null]
InlinePart(mime, data) ==
    [text |-> Null, inlineData |-> Some([mimeType |-> mime, data |-> data])]

Base64(content) == "base64:" \o ToString(content)

(* FileReader.readAsDataURL *)
ReadAsDataURL(file) ==
    <<"data:" \o file.type \o ";base64", ",", Base64(file.content)>>

(* String.prototype.split, on text atoms *)
RECURSIVE Split(_, _)
Split(s, sep) ==
    IF \A i \in 1..Len(s) : s[i] # sep THEN <<s>>
    ELSE LET k == CHOOSE i \in 1..Len(s) :
                     s[i] = sep /\ \A j \in 1..(i - 1) : s[j] # sep
         IN <<SubSeq(s, 1, k - 1)>> \o Split(SubSeq(s, k + 1, Len(s)), sep)

(* fileToBase64, lines 7-19: the resolved value *)
fileToBase64(file) == Split(ReadAsDataURL(file), ",")[2]

----------------------------------------------------------------------------
(* Initial state: the useState initialisers of lines 86-107 *)

IdleAnalysis ==
    [pc |-> "idle", id |-> 0, parts |-> <<>>, file |-> Null,
     request |-> Null, fullResponse |-> <<>>, received |-> <<>>,
     generateCalls |-> 0, createCalls |-> 0]

Init ==
    /\ hardware = InitialHardware
    /\ logData = <<>>
    /\ imageFile = Null
    /\ imagePreview = Null
    /\ isAnalyzing = FALSE
    /\ analysisResult = Null
    /\ chatSession = Null
    /\ chatHistory = <<>>
    /\ chatInput = <<>>
    /\ errorMsg = <<>>
    /\ analysis = IdleAnalysis
    /\ chats = <<>>
    /\ reads = <<>>
    /\ fileInput = Null

----------------------------------------------------------------------------
(* Form edits *)

LogInputs == {<<>>, <<" ">>, <<"L">>}
ChatInputs == {<<" ">>, <<"t">>}

handleInputChange(field, value) ==
    /\ hardware' = [hardware EXCEPT ![field] = value]
    /\ UNCHANGED <<logData, imageFile, imagePreview, isAnalyzing,
                   analysisResult, chatSession, chatHistory, chatInput,
                   errorMsg, analysis, chats, reads,
                   fileInput>>

setLogData(value) ==
    /\ logData' = value
    /\ UNCHANGED <<hardware, imageFile, imagePreview, isAnalyzing,
                   analysisResult, chatSession, chatHistory, chatInput,
                   errorMsg, analysis, chats, reads,
                   fileInput>>

setChatInput(value) ==
    /\ chatInput' = value
    /\ UNCHANGED <<hardware, logData, imageFile, imagePreview, isAnalyzing,
                   analysisResult, chatSession, chatHistory, errorMsg,
                   analysis, chats, reads,
                   fileInput>>

----------------------------------------------------------------------------
(* File ingestion: handleFileSelect, lines 121-162, and clearImage *)

Remove(seq, i) == SubSeq(seq, 1, i - 1) \o SubSeq(seq, i + 1, Len(seq))

(* Variant: a file of exactly MAX_SIZE bytes is truncated as well *)
ReadResultAtCeiling(file) ==
    IF file.size >= MAX_SIZE
    THEN Text(Slice(file.content, MAX_SIZE)) \o TruncationNotice
    ELSE Text(file.content)

(* The text a successful read of lines 148-155 yields *)
ReadResult(file) ==
    IF file.size > MAX_SIZE
    THEN Text(Slice(file.content, MAX_SIZE)) \o TruncationNotice
    ELSE Text(file.content)

handleFileSelect(selected) ==
    IF selected = Null
    THEN /\ fileInput' = Null
         /\ UNCHANGED <<appState, analysis, chats, reads>>
    ELSE LET file == Val(selected)
             name == ToLowerCase(file.name)
         IN /\ fileInput' = selected
            /\ errorMsg' = <<>>
            /\ IF IsImageName(name)
               THEN /\ imageFile' = Some(file)
                    /\ imagePreview' = Some(CreateObjectURL(file))
                    /\ UNCHANGED <<logData, reads>>
               ELSE IF IsBinName(name)
               THEN /\ imageFile' = Null
                    /\ imagePreview' = Null
                    /\ logData' = BinaryNotice
                    /\ UNCHANGED reads
               ELSE /\ Len(reads) < MaxReads
                    /\ imageFile' = Null
                    /\ imagePreview' = Null
                    /\ reads' = Append(reads, file)
                    /\ UNCHANGED logData
            /\ UNCHANGED <<hardware, isAnalyzing, analysisResult, chatSession,
                           chatHistory, chatInput, analysis, chats>>

(* The awaited text() of line 151 or 154 resolves: line 156 *)
readResolved(i) ==
    /\ i \in 1..Len(reads)
    /\ logData' = ReadResult(reads[i])
    /\ reads' = Remove(reads, i)
    /\ UNCHANGED <<hardware, imageFile, imagePreview, isAnalyzing,
                   analysisResult, chatSession, chatHistory, chatInput,
                   errorMsg, analysis, chats, fileInput>>

(* The awaited text() rejects: the catch of lines 157-160 *)
readRejected(i) ==
    /\ i \in 1..Len(reads)
    /\ errorMsg' = ReadFailed
    /\ reads' = Remove(reads, i)
    /\ UNCHANGED <<hardware, logData, imageFile, imagePreview, isAnalyzing,
                   analysisResult, chatSession, chatHistory, chatInput,
                   analysis, chats, fileInput>>

(* Variant: the preview outlives the file handle *)
clearImageKeepsPreview ==
    /\ imageFile' = Null
    /\ fileInput' = Null
    /\ UNCHANGED <<hardware, logData, imagePreview, isAnalyzing,
                   analysisResult, chatSession, chatHistory, chatInput,
                   errorMsg, analysis, chats, reads>>

clearImage ==
    /\ imageFile' = Null
    /\ imagePreview' = Null
    /\ fileInput' = Null
    /\ UNCHANGED <<hardware, logData, isAnalyzing, analysisResult,
                   chatSession, chatHistory, chatInput, errorMsg, analysis,
                   chats, reads>>

----------------------------------------------------------------------------
(* Analysis orchestration: startAnalysis, lines 170-274.  The variable
   analysis holds the locals of the running invocation: its position pc,
   parts, fullResponse, the request handed to generateContentStream, the
   chunks received from the stream and the remote calls it has made. *)

(* Variant: the image test loses its negation *)
InputsMissingNegationLost(log, image) == Trim(log) = <<>> /\ image # Null

(* The validation of line 171 *)
InputsMissing(log, image) == Trim(log) = <<>> /\ image = Null

(* Variant: the chunk is put in front of the text accumulated so far *)
AccumulateInFront(full, text) == text \o full

(* Line 240: fullResponse += chunk.text *)
Accumulate(full, text) == full \o text

(* Variant: the user turn keeps the text part only *)
InitialHistoryTextOnly(parts, fullResponse) ==
    <<[role |-> "user", parts |-> <<Head(parts)>>],
      [role |-> "model", parts |-> <<TextPart(fullResponse)>>]>>

(* Lines 248-257 *)
InitialHistory(parts, fullResponse) ==
    <<[role |-> "user", parts |-> parts],
      [role |-> "model", parts |-> <<TextPart(fullResponse)>>]>>

(* ai.chats.create of lines 259-265; id tells the sessions of different
   analyses apart, as object identity does *)
CreateChat(id, history, instruction) ==
    [id |-> id, model |-> Model, history |-> history,
     systemInstruction |-> instruction]

(* Variant: the fixed text replaces every failure message *)
ErrorTextFixed(e) == AnalysisFailed

(* Line 271: e.message || "Analysis failed." *)
ErrorText(e) == IF Truthy(e.message) THEN Val(e.message) ELSE AnalysisFailed

(* The request generateContentStream is called with, lines 229-236 *)
GenerateRequest(parts) ==
    [model |-> Model, contents |-> parts,
     systemInstruction |-> SystemInstruction,
     thinkingBudget |-> ThinkingBudget]

(* Variant: the catch block leaves the flag set *)
AnalysisCatchKeepsFlag(e, created) ==
    /\ errorMsg' = ErrorText(e)
    /\ UNCHANGED isAnalyzing
    /\ analysis' = [analysis EXCEPT !.pc = "failed",
                                    !.createCalls = @ + created]

(* The catch block of lines 269-273; created counts a chats.create call
   that threw *)
AnalysisCatch(e, created) ==
    /\ errorMsg' = ErrorText(e)
    /\ isAnalyzing' = FALSE
    /\ analysis' = [analysis EXCEPT !.pc = "failed",
                                    !.createCalls = @ + created]

(* Variant: the Analyze button is never disabled *)
AnalyzeNeverDisabled == FALSE

(* disabled={isAnalyzing} of the Analyze button, line 470 *)
AnalyzeDisabled == isAnalyzing

(* The click handler of the Analyze button, the only caller (line 469) *)
startAnalysis ==
    /\ ~AnalyzeDisabled
    /\ IF InputsMissing(logData, imageFile)
       THEN /\ errorMsg' = ValidationError
            /\ UNCHANGED <<isAnalyzing, analysisResult, chatHistory,
                           chatSession, analysis>>
       ELSE /\ analysis.id < MaxAnalyses
            /\ errorMsg' = <<>>
            /\ isAnalyzing' = TRUE
            /\ analysisResult' = Null
            /\ chatHistory' = <<>>
            /\ chatSession' = Null
            /\ LET parts == <<TextPart(ContextPrompt(hardware, logData))>>
               IN IF imageFile # Null
                  THEN /\ analysis' = [pc |-> "encoding",
                                       id |-> analysis.id + 1,
                                       parts |-> parts, file |-> imageFile,
                                       request |-> Null,
                                       fullResponse |-> <<>>,
                                       received |-> <<>>,
                                       generateCalls |-> 0,
                                       createCalls |-> 0]
                  ELSE /\ analysis' = [pc |-> "opening",
                                       id |-> analysis.id + 1,
                                       parts |-> parts, file |-> Null,
                                       request |-> Some(GenerateRequest(parts)),
                                       fullResponse |-> <<>>,
                                       received |-> <<>>,
                                       generateCalls |-> 1,
                                       createCalls |-> 0]
    /\ UNCHANGED <<hardware, logData, imageFile, imagePreview, chatInput,
                   chats, reads,
                   fileInput>>

(* await fileToBase64 resolves (line 218); the stream request follows *)
encodeResolved ==
    /\ analysis.pc = "encoding"
    /\ LET file == Val(analysis.file)
           parts == Append(analysis.parts,
                           InlinePart(file.type, fileToBase64(file)))
       IN analysis' = [analysis EXCEPT
              !.pc = "opening",
              !.parts = parts,
              !.request = Some(GenerateRequest(parts)),
              !.generateCalls = @ + 1]
    /\ UNCHANGED <<appState, chats, reads,
                   fileInput>>

(* await fileToBase64 rejects with the reader's ProgressEvent (line 16) *)
encodeRejected ==
    /\ analysis.pc = "encoding"
    /\ AnalysisCatch(ProgressEvent, 0)
    /\ UNCHANGED <<hardware, logData, imageFile, imagePreview,
                   analysisResult, chatSession, chatHistory, chatInput,
                   chats, reads,
                   fileInput>>

(* Variant: the session is opened when the stream opens, not when it ends *)
streamOpenedWithSession ==
    /\ analysis.pc = "opening"
    /\ analysis' = [analysis EXCEPT !.pc = "streaming"]
    /\ chatSession' = Some(CreateChat(analysis.id,
                           InitialHistory(analysis.parts, analysis.fullResponse),
                           SystemInstruction))
    /\ UNCHANGED <<hardware, logData, imageFile, imagePreview, isAnalyzing,
                   analysisResult, chatHistory, chatInput, errorMsg, chats,
                   reads,
                   fileInput>>

(* await generateContentStream resolves (line 229) *)
streamOpened ==
    /\ analysis.pc = "opening"
    /\ analysis' = [analysis EXCEPT !.pc = "streaming"]
    /\ UNCHANGED <<appState, chats, reads,
                   fileInput>>

(* One iteration of the for-await loop, lines 238-243 *)
streamChunk(text) ==
    /\ analysis.pc = "streaming"
    /\ Len(analysis.received) < MaxChunks
    /\ IF text # <<>>
       THEN LET full == Accumulate(analysis.fullResponse, text)
            IN /\ analysis' = [analysis EXCEPT
                                   !.fullResponse = full,
                                   !.received = Append(@, text)]
               /\ analysisResult' = Some(full)
       ELSE /\ analysis' = [analysis EXCEPT !.received = Append(@, text)]
            /\ UNCHANGED analysisResult
    /\ UNCHANGED <<hardware, logData, imageFile, imagePreview, isAnalyzing,
                   chatSession, chatHistory, chatInput, errorMsg, chats,
                   reads,
                   fileInput>>

(* Variant: a failed stream request is issued once more *)
streamFailedRetries(e) ==
    /\ analysis.pc \in {"opening", "streaming"}
    /\ analysis' = [analysis EXCEPT !.pc = "opening",
                                    !.fullResponse = <<>>,
                                    !.received = <<>>,
                                    !.generateCalls = @ + 1]
    /\ UNCHANGED <<appState, chats, reads,
                   fileInput>>

(* The remote call throws while opening or while iterating *)
streamFailed(e) ==
    /\ analysis.pc \in {"opening", "streaming"}
    /\ AnalysisCatch(e, 0)
    /\ UNCHANGED <<hardware, logData, imageFile, imagePreview,
                   analysisResult, chatSession, chatHistory, chatInput,
                   chats, reads,
                   fileInput>>

(* The stream is exhausted: lines 245-267 run without suspending *)
streamEnded ==
    /\ analysis.pc = "streaming"
    /\ isAnalyzing' = FALSE
    /\ chatSession' = Some(CreateChat(analysis.id,
                           InitialHistory(analysis.parts, analysis.fullResponse),
                           SystemInstruction))
    /\ analysis' = [analysis EXCEPT !.pc = "done", !.createCalls = @ + 1]
    /\ UNCHANGED <<hardware, logData, imageFile, imagePreview,
                   analysisResult, chatHistory, chatInput, errorMsg, chats,
                   reads,
                   fileInput>>

(* The stream is exhausted and ai.chats.create throws: line 245, then the
   catch block *)
chatCreateFailed(e) ==
    /\ analysis.pc = "streaming"
    /\ AnalysisCatch(e, 1)
    /\ UNCHANGED <<hardware, logData, imageFile, imagePreview,
                   analysisResult, chatSession, chatHistory, chatInput,
                   chats, reads,
                   fileInput>>

----------------------------------------------------------------------------
(* Chat orchestration: sendChatMessage, lines 276-302 *)

(* Variant: the input is tested without trimming *)
ChatRefusedUntrimmed(input, session) == input = <<>> \/ session = Null

(* The guard of line 277 *)
ChatRefused(input, session) == Trim(input) = <<>> \/ session = Null

UserEntry(text) == [role |-> "user", text |-> text]
ModelEntry(text) == [role |-> "model", text |-> text]

(* Variant: the bare failure message is shown *)
ChatErrorEntryBare(e) == ModelEntry(StrOf(e.message))

(* Line 300 *)
ChatErrorEntry(e) == ModelEntry(ErrorPrefix \o StrOf(e.message))

(* Variant: the update of a chunk is dropped *)
ReplaceLastDropped(prev, entry) == prev

(* The updater of lines 292-296: a write at index -1 of an empty array adds
   no element *)
ReplaceLast(prev, entry) ==
    IF prev = <<>> THEN prev ELSE [prev EXCEPT ![Len(prev)] = entry]

(* A request whose sendChatMessage has returned: its locals are gone *)
Returned(pc) ==
    [pc |-> pc, session |-> Null, userMsg |-> <<>>, modelMsg |-> <<>>,
     received |-> <<>>, sendCalls |-> 1]

sendChatMessage ==
    /\ IF ChatRefused(chatInput, chatSession)
       THEN UNCHANGED <<chatInput, chatHistory, chats>>
       ELSE /\ Len(chats) < MaxChats
            /\ chatInput' = <<>>
            /\ chatHistory' = Append(chatHistory, UserEntry(chatInput))
            /\ chats' = Append(chats, [pc |-> "opening",
                                       session |-> chatSession,
                                       userMsg |-> chatInput,
                                       modelMsg |-> <<>>,
                                       received |-> <<>>,
                                       sendCalls |-> 1])
    /\ UNCHANGED <<hardware, logData, imageFile, imagePreview, isAnalyzing,
                   analysisResult, chatSession, errorMsg, analysis, reads,
                   fileInput>>

(* await sendMessageStream resolves (line 284); the placeholder of line 287 *)
chatOpened(i) ==
    /\ i \in 1..Len(chats)
    /\ chats[i].pc = "opening"
    /\ chatHistory' = Append(chatHistory, ModelEntry(<<>>))
    /\ chats' = [chats EXCEPT ![i].pc = "streaming"]
    /\ UNCHANGED <<hardware, logData, imageFile, imagePreview, isAnalyzing,
                   analysisResult, chatSession, chatInput, errorMsg,
                   analysis, reads,
                   fileInput>>

(* One iteration of the for-await loop, lines 289-298 *)
chatChunk(i, text) ==
    /\ i \in 1..Len(chats)
    /\ chats[i].pc = "streaming"
    /\ Len(chats[i].received) < MaxChunks
    /\ IF text # <<>>
       THEN LET msg == Accumulate(chats[i].modelMsg, text)
            IN /\ chats' = [chats EXCEPT ![i].modelMsg = msg,
                                         ![i].received = Append(@, text)]
               /\ chatHistory' = ReplaceLast(chatHistory, ModelEntry(msg))
       ELSE /\ chats' = [chats EXCEPT ![i].received = Append(@, text)]
            /\ UNCHANGED chatHistory
    /\ UNCHANGED <<hardware, logData, imageFile, imagePreview, isAnalyzing,
                   analysisResult, chatSession, chatInput, errorMsg,
                   analysis, reads,
                   fileInput>>

(* Variant: the failure is also shown as the analysis error *)
chatFailedShowsError(i, e) ==
    /\ i \in 1..Len(chats)
    /\ chats[i].pc \in {"opening", "streaming"}
    /\ chatHistory' = Append(chatHistory, ChatErrorEntry(e))
    /\ errorMsg' = ErrorText(e)
    /\ chats' = [chats EXCEPT ![i] = Returned("failed")]
    /\ UNCHANGED <<hardware, logData, imageFile, imagePreview, isAnalyzing,
                   analysisResult, chatSession, chatInput, analysis, reads,
                   fileInput>>

(* sendMessageStream or the iteration throws: the catch of lines 299-301 *)
chatFailed(i, e) ==
    /\ i \in 1..Len(chats)
    /\ chats[i].pc \in {"opening", "streaming"}
    /\ chatHistory' = Append(chatHistory, ChatErrorEntry(e))
    /\ chats' = [chats EXCEPT ![i] = Returned("failed")]
    /\ UNCHANGED <<hardware, logData, imageFile, imagePreview, isAnalyzing,
                   analysisResult, chatSession, chatInput, errorMsg,
                   analysis, reads,
                   fileInput>>

(* The chat stream is exhausted: sendChatMessage returns *)
chatEnded(i) ==
    /\ i \in 1..Len(chats)
    /\ chats[i].pc = "streaming"
    /\ chats' = [chats EXCEPT ![i] = Returned("done")]
    /\ UNCHANGED <<appState, analysis, reads,
                   fileInput>>

----------------------------------------------------------------------------
(* Report rendering, lines 514-520: the view is computed from analysisResult
   on every render.  The text of a report is one atom per character. *)

(* String.prototype.startsWith *)
StartsWith(s, prefix) ==
    /\ Len(s) >= Len(prefix)
    /\ SubSeq(s, 1, Len(prefix)) = prefix

(* String.prototype.indexOf, 1-based; 0 when pat does not occur *)
IndexOf(s, pat) ==
    LET at == {k \in 1..(Len(s) - Len(pat) + 1) :
                  SubSeq(s, k, k + Len(pat) - 1) = pat}
    IN IF at = {} THEN 0 ELSE CHOOSE k \in at : \A j \in at : k <= j

(* String.prototype.replace with a string pattern: the first occurrence *)
ReplaceFirst(s, pat, by) ==
    LET k == IndexOf(s, pat)
    IN IF k = 0 THEN s
       ELSE SubSeq(s, 1, k - 1) \o by \o SubSeq(s, k + Len(pat), Len(s))

(* Variant: only the first occurrence is replaced *)
ReplaceFirstOnly(s, pat, by) == ReplaceFirst(s, pat, by)

(* String.prototype.replace with a global pattern of literal characters:
   every occurrence, found from left to right without overlap *)
RECURSIVE ReplaceAll(_, _, _)
ReplaceAll(s, pat, by) ==
    LET k == IndexOf(s, pat)
    IN IF k = 0 THEN s
       ELSE SubSeq(s, 1, k - 1) \o by
            \o ReplaceAll(SubSeq(s, k + Len(pat), Len(s)), pat, by)

(* String.prototype.substring(start), 0-based start *)
Substring(s, start) == SubSeq(s, start + 1, Len(s))

(* The element one line is rendered as, lines 515-518 *)
RenderLine(line) ==
    IF StartsWith(line, <<"#", "#", "#">>)
    THEN [tag |-> "h3", text |-> ReplaceFirst(line, <<"#", "#", "#">>, <<>>)]
    ELSE IF StartsWith(line, <<"*", "*">>)
    THEN [tag |-> "h4", text |-> ReplaceAll(line, <<"*", "*">>, <<>>)]
    ELSE IF StartsWith(line, <<"-">>)
    THEN [tag |-> "li", text |-> Substring(line, 1)]
    ELSE [tag |-> "p", text |-> line]

(* The report view, lines 513-520; Null while there is no text to show *)
Report(result) ==
    IF ~Truthy(result) THEN Null
    ELSE LET lines == Split(Val(result), "\n")
         IN Some([i \in 1..Len(lines) |-> RenderLine(lines[i])])

(* Chunks of a report in the model *)
RenderChunks ==
    {<<"#", "#", "#">>, <<"*", "*">>, <<"-">>, <<" ", "H">>, <<"\n">>,
     <<"*">>, <<"H", "*", "*">>, <<"-", "H", "\n">>}

----------------------------------------------------------------------------

(* The input side: the form, the log text, the file picker with every file
   kind, text reads completing in any order *)
NextFiles ==
    \/ \E f \in HardwareFields : \E v \in HardwareInputs(f) :
           handleInputChange(f, v)
    \/ \E v \in LogInputs : setLogData(v)
    \/ \E s \in {Null} \cup {Some(f) : f \in Files} : handleFileSelect(s)
    \/ \E i \in 1..MaxReads : readResolved(i)
    \/ \E i \in 1..MaxReads : readRejected(i)
    \/ clearImage

SpecFiles == Init /\ [][NextFiles]_vars

(* The analysis flow with the inputs it reads: form, log text, image *)
NextAnalysis ==
    \/ \E v \in HardwareInputs("weight") : handleInputChange("weight", v)
    \/ \E v \in LogInputs : setLogData(v)
    \/ handleFileSelect(Some(FileMapPng))
    \/ clearImage
    \/ startAnalysis
    \/ encodeResolved
    \/ encodeRejected
    \/ streamOpened
    \/ \E t \in AnalysisChunks : streamChunk(t)
    \/ \E e \in Errors : streamFailed(e)
    \/ streamEnded
    \/ \E e \in Errors : chatCreateFailed(e)

SpecAnalysis == Init /\ [][NextAnalysis]_vars

(* Every awaited promise of startAnalysis settles: the file reader fires
   onload or onerror, the stream request resolves or rejects, and an open
   stream ends or throws *)
EncodingSettles == encodeResolved \/ encodeRejected
OpeningSettles == streamOpened \/ \E e \in Errors : streamFailed(e)
StreamSettles ==
    \/ streamEnded
    \/ \E e \in Errors : streamFailed(e)
    \/ \E e \in Errors : chatCreateFailed(e)

SpecAnalysisLive ==
    /\ SpecAnalysis
    /\ WF_vars(EncodingSettles)
    /\ WF_vars(analysis.pc = "opening" /\ OpeningSettles)
    /\ WF_vars(analysis.pc = "streaming" /\ StreamSettles)

(* The chat flow on top of analyses of a typed log text; chat requests
   overlap each other and a new analysis *)
NextChat ==
    \/ setLogData(<<"L">>)
    \/ \E v \in ChatInputs : setChatInput(v)
    \/ startAnalysis
    \/ streamOpened
    \/ streamEnded
    \/ sendChatMessage
    \/ \E i \in 1..MaxChats : chatOpened(i)
    \/ \E i \in 1..MaxChats : \E t \in ChatChunks : chatChunk(i, t)
    \/ \E i \in 1..MaxChats : \E e \in Errors : chatFailed(i, e)
    \/ \E i \in 1..MaxChats : chatEnded(i)

SpecChat == Init /\ [][NextChat]_vars

(* Both streams with their chunks and failures: analyses of a typed log
   text, each followed by chat requests *)
NextStreams ==
    \/ setLogData(<<"L">>)
    \/ setChatInput(<<"t">>)
    \/ startAnalysis
    \/ streamOpened
    \/ \E t \in StreamChunks : streamChunk(t)
    \/ \E e \in Errors : streamFailed(e)
    \/ streamEnded
    \/ \E e \in Errors : chatCreateFailed(e)
    \/ sendChatMessage
    \/ \E i \in 1..MaxChats : chatOpened(i)
    \/ \E i \in 1..MaxChats : \E t \in ChatChunks : chatChunk(i, t)
    \/ \E i \in 1..MaxChats : \E e \in Errors : chatFailed(i, e)
    \/ \E i \in 1..MaxChats : chatEnded(i)

SpecStreams == Init /\ [][NextStreams]_vars

(* An analysis whose stream delivers the text of a report *)
NextRender ==
    \/ setLogData(<<"L">>)
    \/ startAnalysis
    \/ streamOpened
    \/ \E t \in RenderChunks : streamChunk(t)
    \/ streamEnded

SpecRender == Init /\ [][NextRender]_vars

(* The whole component *)
Next == NextFiles \/ NextAnalysis \/ NextChat \/ NextStreams \/ NextRender

Spec == Init /\ [][Next]_vars

----------------------------------------------------------------------------
(* Properties of the analysis flow, checked under SpecAnalysis *)

(* A state value of type string | null from an accumulated text: the
   accumulator is only stored once it holds text *)
ResultOf(text) == IF text = <<>> THEN Null ELSE Some(text)

(* C1, as stated: in every reachable state chatSession is non-null exactly
   when the fragment stream of the latest analysis was exhausted without
   error.  chats.create is called only once the loop has ended. *)
C1_SessionIffStreamExhausted ==
    (chatSession # Null) <=> (analysis.createCalls = 1)

(* C1, amended: in every reachable state chatSession is non-null exactly
   when the latest analysis that passed validation has run to its end: its
   stream was exhausted without error and the chat session was then created
   without error.  It is null initially, in flight and after any failure. *)
C1_SessionIffCompleted ==
    (chatSession # Null) <=> (analysis.pc = "done")

C1_Witness ==
    /\ chatSession # Null
    /\ analysis.id = 2
    /\ Val(chatSession).id = 2

(* C2: from the start of an analysis on, analysisResult is null until text
   has arrived and otherwise the concatenation, in order, of exactly the
   chunks its stream has delivered so far; nothing of an earlier analysis
   shows. *)
C2_ResultIsPrefixOfStream ==
    analysisResult =
        IF analysis.pc = "idle" THEN Null
        ELSE ResultOf(Concat(analysis.received))

C2_Witness ==
    /\ analysis.id = 2
    /\ analysis.received = << <<"A">>, <<"B">> >>
    /\ analysisResult = Some(<<"A", "B">>)

(* C3: a chat session exists only once the stream is exhausted, and its
   history has two turns: a user turn with the parts of the request that was
   sent, then a model turn whose text is the concatenation of all chunks
   received; it carries the system instruction of the request. *)
C3_SessionSeededWithExchange ==
    chatSession # Null =>
        /\ analysis.pc = "done"
        /\ analysis.request # Null
        /\ Val(chatSession).history =
              <<[role |-> "user",
                 parts |-> Val(analysis.request).contents],
                [role |-> "model",
                 parts |-> <<TextPart(Concat(analysis.received))>>]>>
        /\ Val(chatSession).systemInstruction =
              Val(analysis.request).systemInstruction
        /\ analysisResult = ResultOf(Concat(analysis.received))

C3_Witness ==
    /\ chatSession # Null
    /\ Len(Val(chatSession).history[1].parts) = 2
    /\ Val(chatSession).history[2].parts = <<TextPart(<<"A", "B">>)>>

(* C4: startAnalysis with empty log text and no image sets the error message
   to the validation text, makes no remote call and leaves analysisResult,
   chatSession, chatHistory and isAnalyzing as they were. *)
C4_RefusedWithoutEffect ==
    [][startAnalysis /\ logData = <<>> /\ imageFile = Null
         => /\ errorMsg' = ValidationError
            /\ UNCHANGED <<analysisResult, chatSession, chatHistory,
                           isAnalyzing, analysis>>]_vars

C4_Witness ==
    /\ errorMsg = ValidationError
    /\ logData = <<>>
    /\ imageFile = Null
    /\ chatSession # Null
    /\ analysisResult # Null
    /\ analysis.generateCalls = 1

(* A remote call of the running analysis throws e *)
RemoteFailure(e) == streamFailed(e) \/ chatCreateFailed(e)

(* What every remote failure leaves behind, whatever its message *)
FailureAborts ==
    /\ analysisResult' = analysisResult
    /\ analysisResult' = ResultOf(Concat(analysis.received))
    /\ isAnalyzing' = FALSE
    /\ chatSession' = Null
    /\ analysis'.pc = "failed"

(* C5, as stated: when a remote call of an analysis fails, the error message
   becomes the failure's message, analysisResult keeps the prefix
   accumulated so far, isAnalyzing becomes false and no session is set. *)
C5_FailureShowsItsMessage ==
    [][\A e \in Errors :
          RemoteFailure(e) => errorMsg' = Val(e.message) /\ FailureAborts]_vars

(* C5, amended: as stated, except that a failure whose message is empty
   shows the fixed text "Analysis failed."; and once failed, the analysis
   changes neither analysisResult nor chatSession any more. *)
C5_FailureShowsMessageOrFixedText ==
    [][/\ \A e \in Errors :
             RemoteFailure(e) =>
                /\ errorMsg' = IF Val(e.message) # <<>>
                               THEN Val(e.message) ELSE AnalysisFailed
                /\ FailureAborts
       /\ (analysis.pc = "failed" /\ analysis'.id = analysis.id) =>
             UNCHANGED <<analysisResult, chatSession, isAnalyzing>>]_vars

C5_Witness ==
    /\ analysis.pc = "failed"
    /\ errorMsg = <<"E">>
    /\ analysis.received = << <<"A">> >>
    /\ analysisResult = Some(<<"A">>)
    /\ ~isAnalyzing

(* The running invocation of startAnalysis is suspended at an await *)
AnalysisInFlight == analysis.pc \in {"encoding", "opening", "streaming"}

(* C15: isAnalyzing is true exactly while an analysis that passed validation
   has not yet ended or failed, the Analyze button is disabled exactly while
   isAnalyzing, no startAnalysis begins while an analysis is in flight, and
   a text stored in analysisResult is the text of the chunks of the one
   running analysis. *)
C15_OneAnalysisInFlight ==
    /\ [](isAnalyzing <=> AnalysisInFlight)
    /\ [](AnalyzeDisabled <=> isAnalyzing)
    /\ [][/\ (analysis'.id # analysis.id) => ~AnalysisInFlight
          /\ (analysisResult' # analysisResult /\ analysisResult' # Null) =>
                /\ analysis'.id = analysis.id
                /\ analysis.pc = "streaming"
                /\ analysisResult' = Some(Concat(analysis'.received))]_vars

C15_Witness ==
    /\ isAnalyzing
    /\ analysis.id = 2
    /\ analysis.pc = "streaming"
    /\ analysisResult = Some(<<"B">>)
    /\ AnalyzeDisabled

(* C19: whenever isAnalyzing is true it eventually becomes false, given
   that every awaited remote call settles and the stream ends or fails; and
   isAnalyzing is never true without an analysis in flight. *)
C19_FlagEventuallyCleared ==
    /\ [](isAnalyzing => AnalysisInFlight)
    /\ (isAnalyzing ~> ~isAnalyzing)

C19_Witness ==
    /\ ~isAnalyzing
    /\ analysis.id = 2
    /\ analysis.pc = "failed"
    /\ analysis.file # Null
    /\ analysis.generateCalls = 0

----------------------------------------------------------------------------
(* Properties of the chat flow, checked under SpecChat *)

(* Request i is suspended in sendChatMessage before the step *)
InFlight(i) == i \in 1..Len(chats) /\ chats[i].pc \in {"opening", "streaming"}

IsBlank(s) == \A k \in 1..Len(s) : s[k] \in Whitespace

(* C6: an accepted sendChatMessage appends the user entry at once and clears
   the input; when its stream opens, one empty model entry is appended; each
   chunk with text rewrites that entry of the request, which held the
   previous cumulative text, to the cumulative text of the chunks received,
   and changes no other entry. *)
C6_ChatGrowsByUserAndModelEntry ==
    [][/\ Len(chats') = Len(chats) + 1 =>
             /\ chatHistory' = Append(chatHistory, UserEntry(chatInput))
             /\ chatInput' = <<>>
       /\ \A i \in 1..Len(chats) :
             /\ (chats[i].pc = "opening" /\ chats'[i].pc = "streaming") =>
                   chatHistory' = Append(chatHistory, ModelEntry(<<>>))
             /\ (chats[i].pc = "streaming"
                 /\ chats'[i].modelMsg # chats[i].modelMsg) =>
                   /\ chatHistory # <<>>
                   /\ chatHistory[Len(chatHistory)] =
                          ModelEntry(Concat(chats[i].received))
                   /\ chatHistory' =
                          [chatHistory EXCEPT ![Len(chatHistory)] =
                              ModelEntry(Concat(chats'[i].received))]]_vars

(* C7: sendChatMessage with an empty or whitespace-only input, or without a
   chat session, changes no state variable and starts no request. *)
C7_RefusedSendChangesNothing ==
    [][sendChatMessage /\ (IsBlank(chatInput) \/ chatSession = Null)
         => UNCHANGED vars]_vars

C7_Witness ==
    /\ chatSession # Null
    /\ chatInput = <<" ">>
    /\ chatHistory # <<>>
    /\ Len(chats) = 1

(* C8: when request i fails with e, while opening its stream or between
   chunks, exactly the entry (model, "Error: " + message of e) is appended
   to chatHistory; no entry is removed or changed, the session is left as it
   is (non-null if it is still the session of the request), and the request
   has returned. *)
C8_ChatFailureAppendsErrorEntry ==
    [][\A i \in 1..Len(chats) : \A e \in Errors :
          (InFlight(i) /\ chatFailed(i, e)) =>
             /\ chatHistory' =
                   Append(chatHistory,
                          [role |-> "model",
                           text |-> <<"Error: ">> \o Val(e.message)])
             /\ chatSession' = chatSession
             /\ (chats[i].session = chatSession => chatSession' # Null)
             /\ chats'[i].pc = "failed"]_vars

C8_Witness ==
    /\ Len(chatHistory) = 3
    /\ chatHistory[1] = UserEntry(<<"t">>)
    /\ chatHistory[2] = ModelEntry(<<"X">>)
    /\ chatHistory[3] = ModelEntry(<<"Error: ", "E">>)
    /\ chatSession # Null
    /\ chats[1].pc = "failed"

(* C9: in every reachable state chatHistory is empty whenever chatSession is
   null. *)
C9_NoHistoryWithoutSession ==
    chatSession = Null => chatHistory = <<>>

(* A chunk of the stream of request i is consumed in the step *)
ChunkApplied(i) ==
    /\ i \in 1..Len(chats)
    /\ chats[i].pc = "streaming"
    /\ chats'[i].pc = "streaming"
    /\ Len(chats'[i].received) = Len(chats[i].received) + 1

(* C16: under any interleaving of sendChatMessage invocations, the step
   that applies a chunk of a request changes no entry of chatHistory other
   than a model entry that holds the text this request has received so far:
   no user entry is overwritten or removed, and no model entry of another
   request. *)
C16_ChunkRewritesOwnPlaceholderOnly ==
    [][\A i \in 1..Len(chats) :
          ChunkApplied(i) =>
             /\ Len(chatHistory') = Len(chatHistory)
             /\ \A k \in 1..Len(chatHistory) :
                   chatHistory'[k] # chatHistory[k] =>
                      chatHistory[k] = ModelEntry(chats[i].modelMsg)]_vars

(* C22: a step of a sendChatMessage invocation (the accepted submit, the
   placeholder, a chunk, the failure entry, the return) changes neither
   analysisResult, chatSession, isAnalyzing, errorMsg, logData, the image
   attachment nor the hardware form, and only the accepted submit changes
   chatInput. *)
C22_ChatStepsTouchChatOnly ==
    [][chats' # chats =>
          /\ UNCHANGED <<analysisResult, chatSession, isAnalyzing, errorMsg,
                         logData, imageFile, imagePreview, hardware,
                         analysis>>
          /\ (Len(chats') = Len(chats) => UNCHANGED chatInput)]_vars

C22_Witness ==
    /\ Len(chats) = 2
    /\ chats[1].pc = "failed"
    /\ chats[2].pc = "done"
    /\ chatSession # Null
    /\ errorMsg = <<>>
    /\ ~isAnalyzing
    /\ Len(chatHistory) = 4

----------------------------------------------------------------------------
(* Properties of both streams, checked under SpecStreams *)

(* A chunk of the analysis stream is consumed in the step *)
AnalysisChunkConsumed ==
    /\ analysis.pc = "streaming"
    /\ analysis'.pc = "streaming"
    /\ Len(analysis'.received) = Len(analysis.received) + 1

LastOf(seq) == seq[Len(seq)]

(* C17, as stated: every chunk of the analysis stream, with text or without,
   stores the text received so far in analysisResult, and every chunk of a
   chat stream stores the text received so far in the last entry of
   chatHistory, in the step that consumes it. *)
C17_EveryChunkUpdates ==
    [][/\ AnalysisChunkConsumed =>
             analysisResult' = Some(Concat(analysis'.received))
       /\ \A i \in 1..Len(chats) :
             ChunkApplied(i) =>
                /\ chatHistory # <<>>
                /\ chatHistory' =
                      [chatHistory EXCEPT ![Len(chatHistory)] =
                          ModelEntry(Concat(chats'[i].received))]]_vars

(* C17, amended: a chunk that carries text makes exactly one update in the
   step that consumes it: analysisResult becomes the text received so far,
   respectively the last entry chatHistory then has, if it has one, becomes
   the model entry with the text received so far; a chunk without text
   changes no state; no other state changes in either case. *)
C17_ChunkWithTextUpdatesOnce ==
    [][/\ AnalysisChunkConsumed =>
             /\ IF LastOf(analysis'.received) # <<>>
                THEN analysisResult' = Some(Concat(analysis'.received))
                ELSE analysisResult' = analysisResult
             /\ UNCHANGED <<hardware, logData, imageFile, imagePreview,
                            isAnalyzing, chatSession, chatHistory, chatInput,
                            errorMsg>>
       /\ \A i \in 1..Len(chats) :
             ChunkApplied(i) =>
                /\ IF LastOf(chats'[i].received) # <<>> /\ chatHistory # <<>>
                   THEN chatHistory' =
                           [chatHistory EXCEPT ![Len(chatHistory)] =
                               ModelEntry(Concat(chats'[i].received))]
                   ELSE chatHistory' = chatHistory
                /\ UNCHANGED <<hardware, logData, imageFile, imagePreview,
                               isAnalyzing, analysisResult, chatSession,
                               chatInput, errorMsg>>]_vars

C17_Witness ==
    /\ analysis.received = << <<>>, <<"A">> >>
    /\ analysisResult = Some(<<"A">>)
    /\ Len(chats) = 1
    /\ chats[1].pc = "streaming"
    /\ chats[1].received = << <<"X">>, <<>> >>
    /\ chatHistory = <<UserEntry(<<"t">>), ModelEntry(<<"X">>)>>

(* C20: no invocation of startAnalysis has issued more than one stream
   request or more than one chats.create call, and no invocation of
   sendChatMessage more than one sendMessageStream call, whether it is
   running, has ended or has failed; the number of invocations is the
   number of accepted user actions. *)
C20_OneAttemptPerInvocation ==
    /\ analysis.generateCalls <= 1
    /\ analysis.createCalls <= 1
    /\ analysis.createCalls <= analysis.generateCalls
    /\ analysis.pc \in {"opening", "streaming", "done"} =>
          analysis.generateCalls = 1
    /\ analysis.pc = "done" => analysis.createCalls = 1
    /\ \A i \in 1..Len(chats) : chats[i].sendCalls = 1

C20_Witness ==
    /\ analysis.id = 2
    /\ analysis.pc = "failed"
    /\ analysis.generateCalls = 1
    /\ analysis.createCalls = 1
    /\ Len(chats) = 2
    /\ chats[1].pc = "failed"
    /\ chats[2].pc = "failed"

----------------------------------------------------------------------------
(* Properties of file ingestion, checked under SpecFiles *)

(* The files of the model whose lower-cased name ends in an image suffix *)
NamedAsImage == {FileMapPng, FileHudJpg, FilePhotoJpeg, FileShotWebp}

(* C10: selecting a file whose lower-cased name ends in .jpg, .jpeg, .png or
   .webp starts no text read, leaves the log text unchanged, and leaves
   exactly that file as the image attachment, with its preview. *)
C10_ImageSelectionAttachesOnly ==
    [][\A f \in NamedAsImage :
          handleFileSelect(Some(f)) =>
             /\ reads' = reads
             /\ logData' = logData
             /\ imageFile' = Some(f)
             /\ imagePreview' = Some(CreateObjectURL(f))]_vars

C10_Witness ==
    /\ imageFile = Some(FileMapPng)
    /\ imagePreview = Some(CreateObjectURL(FileMapPng))
    /\ logData = Text(FileLog.content)
    /\ Len(reads) = 1

(* C11: selecting a file whose lower-cased name ends in .bin starts no read
   of the file and sets the log text to the fixed instructional message,
   whatever the log text was. *)
C11_BinSelectionShowsNotice ==
    [][\A f \in {FileBin, FileUpperBin} :
          handleFileSelect(Some(f)) =>
             /\ reads' = reads
             /\ logData' = <<"BINARY FILE DETECTED (.BIN) ... Upload the text file here for analysis.">>]_vars

C11_Witness ==
    /\ logData = BinaryNotice
    /\ Len(reads) = 1
    /\ imageFile = Null

(* C12: a successful read of a text file of size S sets the log text to the
   full decoded content, with no suffix, when S <= 5 MiB (S = 5 MiB
   included), and to the decoded first 5 MiB followed by the truncation
   notice when S > 5 MiB. *)
C12_ReadYieldsContentOrTruncation ==
    [][\A i \in 1..Len(reads) :
          readResolved(i) =>
             LET f == reads[i]
             IN IF Size(f.content) <= 5242880
                THEN logData' = Text(f.content)
                ELSE logData' = Text(Slice(f.content, 5242880)) \o
                         <<"\n\n[...File truncated for browser performance. Analysis will use the first 5MB...]">>]_vars

C12_Witness ==
    /\ logData = <<"c*5242880">>
    /\ FileExact.size = 5242880
    /\ reads = <<FileBig>>

(* C13, as stated: when the read of a selected text file fails, the fixed
   error message is shown and everything else is as before the selection:
   neither the selection nor the failure changes the log text or the image
   attachment. *)
C13_ReadFailureKeepsImage ==
    [][/\ \A f \in TextFiles :
             handleFileSelect(Some(f)) =>
                UNCHANGED <<logData, imageFile, imagePreview>>
       /\ \A i \in 1..Len(reads) :
             readRejected(i) =>
                /\ errorMsg' = <<"Failed to read text file.">>
                /\ UNCHANGED <<logData, imageFile, imagePreview>>]_vars

(* C13, amended: the selection of a text file leaves the log text as it is
   and clears the image attachment; a failing read then shows the fixed
   error message and changes nothing else. *)
C13_ReadFailureKeepsLogText ==
    [][/\ \A f \in TextFiles :
             handleFileSelect(Some(f)) =>
                /\ UNCHANGED logData
                /\ imageFile' = Null
                /\ imagePreview' = Null
       /\ \A i \in 1..Len(reads) :
             readRejected(i) =>
                /\ errorMsg' = <<"Failed to read text file.">>
                /\ UNCHANGED <<hardware, logData, imageFile, imagePreview,
                               isAnalyzing, analysisResult, chatSession,
                               chatHistory, chatInput>>]_vars

C13_Witness ==
    /\ errorMsg = <<"Failed to read text file.">>
    /\ logData = <<"L">>
    /\ imageFile = Null
    /\ reads = <<>>

(* C18: the selection of a file that is not an image leaves no image
   attachment, the completion of its read, successful or not, does not
   bring one back, and in every state imageFile and imagePreview are both
   null or both non-null. *)
C18_NoAttachmentAfterNonImage ==
    /\ []((imageFile = Null) <=> (imagePreview = Null))
    /\ [][/\ \A f \in BinFiles \cup TextFiles :
                handleFileSelect(Some(f)) =>
                   imageFile' = Null /\ imagePreview' = Null
          /\ \A i \in 1..Len(reads) :
                (readResolved(i) \/ readRejected(i)) =>
                   UNCHANGED <<imageFile, imagePreview>>]_vars

C18_Witness ==
    /\ imageFile = Null
    /\ imagePreview = Null
    /\ reads = <<FilePngTxt, FileLog>>

----------------------------------------------------------------------------
(* Properties of the report view, checked under SpecRender *)

(* A line without its ** pairs, read from left to right *)
RECURSIVE StripPairs(_)
StripPairs(l) ==
    IF Len(l) < 2 THEN l
    ELSE IF l[1] = "*" /\ l[2] = "*" THEN StripPairs(SubSeq(l, 3, Len(l)))
    ELSE <<l[1]>> \o StripPairs(Tail(l))

(* The lines of a text: the pieces between its line breaks *)
RECURSIVE LinesOf(_)
LinesOf(text) ==
    IF \A k \in 1..Len(text) : text[k] # "\n" THEN <<text>>
    ELSE LET k == CHOOSE j \in 1..Len(text) :
                     text[j] = "\n" /\ \A m \in 1..(j - 1) : text[m] # "\n"
         IN <<SubSeq(text, 1, k - 1)>> \o LinesOf(SubSeq(text, k + 1, Len(text)))

(* C14: the report view has one element per line of analysisResult, and the
   element of a line depends on that line only: a line that starts with ###
   is a heading with the line less its first three characters; else a line
   that starts with ** is a sub-heading with the line less its ** pairs;
   else a line that starts with - is a list item with the line less its
   first character; any other line, the empty one included, is a paragraph
   with the line unchanged.  "### H" gives the heading " H". *)
C14_LinesClassifiedByPrefix ==
    /\ RenderLine(<<"#", "#", "#", " ", "H">>) = [tag |-> "h3", text |-> <<" ", "H">>]
    /\ RenderLine(<<>>) = [tag |-> "p", text |-> <<>>]
    /\ analysisResult # Null =>
          LET lines == LinesOf(Val(analysisResult))
              view == Val(Report(analysisResult))
          IN /\ Len(view) = Len(lines)
             /\ \A i \in 1..Len(lines) :
                   LET l == lines[i]
                   IN IF Len(l) >= 3 /\ l[1] = "#" /\ l[2] = "#" /\ l[3] = "#"
                      THEN view[i] = [tag |-> "h3", text |-> SubSeq(l, 4, Len(l))]
                      ELSE IF Len(l) >= 2 /\ l[1] = "*" /\ l[2] = "*"
                      THEN view[i] = [tag |-> "h4", text |-> StripPairs(l)]
                      ELSE IF Len(l) >= 1 /\ l[1] = "-"
                      THEN view[i] = [tag |-> "li", text |-> Tail(l)]
                      ELSE view[i] = [tag |-> "p", text |-> l]

C14_Witness ==
    /\ analysisResult = Some(<<"-", "H", "\n", "*", "*">>)
    /\ Report(analysisResult) =
          Some(<<[tag |-> "li", text |-> <<"H">>], [tag |-> "h4", text |-> <<>>]>>)

(* C21: when the last pending read resolves and the file the input holds,
   the one selected last, is a text file whose read has not failed, the log
   text is the content of that file, in whatever order the reads of the
   files selected before it and its own read have resolved. *)
C21_LastSelectedFileWins ==
    [][\A i \in 1..Len(reads) :
          (/\ readResolved(i)
           /\ reads' = <<>>
           /\ errorMsg = <<>>
           /\ fileInput # Null
           /\ Val(fileInput) \in TextFiles) =>
             logData' = ReadResult(Val(fileInput))]_vars

====
